---- MODULE Spec2Model ----
(***************************************************************************)
(* Model of the two scheduling engines of main.cpp: round_robin (quantum   *)
(* based) and preemptive_priority (1-tick re-evaluation), as main calls    *)
(* them: one engine on the process vector it read, or both, one after the  *)
(* other, on its sample.                                                   *)
(***************************************************************************)
EXTENDS Integers, Sequences, FiniteSets, TLC

VARIABLES
    main_pc,           \* main: "args" (one engine call on the processes read),
                       \* "sample_rr", "sample_pps" (the two calls on the sample)
    engine,            \* "rr" or "pps": which function main called
    quantum,           \* round_robin's quantum argument (0 for pps: unused)
    caller,            \* the caller's vector<Process> (passed by value)
    procs,             \* the engine's private copy, sorted by the engine
    q,                 \* round_robin: queue<int> of indices into procs
    in_queue,          \* round_robin: vector<bool> in_queue
    pq,                \* preemptive_priority: the indices held by the heap
    time,              \* the clock of the run
    completed,         \* number of finalized processes
    idx_next_arrival,  \* round_robin: next index of procs not admitted yet
    idx,               \* preemptive_priority: next index not admitted yet
    gantt,             \* vector<GanttEntry>: the timeline
    pc                 \* "start" (function entry), "loop", "done"

vars == <<main_pc, engine, quantum, caller, procs, q, in_queue, pq, time, completed,
          idx_next_arrival, idx, gantt, pc>>

----------------------------------------------------------------------------
(* Bounds of the enumerated inputs *)

MaxArrival == 2
MaxBurst == 2
MaxGantt == 24

Pids == 1..3
Priorities == 1..2
Quanta == 1..2
ProcCounts == 1..3

\* the wider domain, with the values the engines are not meant to accept
AnyCounts == 0..2
AnyPids == 1..2
AnyArrivals == -1..2
AnyBursts == -1..2
AnyPriorities == 1..2
AnyQuanta == -1..1

----------------------------------------------------------------------------
(* Data *)

IDLE == -1

Min(a, b) == IF a < b THEN a ELSE b

\* Process::Process
Process(id, a, b, p) ==
    [pid |-> id, arrival |-> a, burst |-> b, priority |-> p,
     remaining |-> b, start_time |-> -1, completion_time |-> 0,
     waiting_time |-> 0, turnaround_time |-> 0]

\* GanttEntry::GanttEntry
GanttEntry(p, s, e) == [pid |-> p, start |-> s, end |-> e]

load_sample ==
    << Process(1, 0, 5, 2), Process(2, 1, 3, 1),
       Process(3, 2, 8, 4), Process(4, 3, 6, 3) >>

Range(s) == {s[i] : i \in DOMAIN s}

\* the input contract of section 6 of the specification, as a predicate on
\* a process vector
ValidProcs(v) ==
    /\ Len(v) > 0
    /\ \A i, j \in DOMAIN v : i # j => v[i].pid # v[j].pid
    /\ \A i \in DOMAIN v : v[i].arrival >= 0 /\ v[i].burst > 0

----------------------------------------------------------------------------
(* std::sort with the engines' comparators *)

\* round_robin's comparator: arrival, then pid
RRLess(a, b) ==
    IF a.arrival # b.arrival THEN a.arrival < b.arrival ELSE a.pid < b.pid

\* preemptive_priority's comparator: arrival, then priority, then pid
PPSLess(a, b) ==
    IF a.arrival # b.arrival THEN a.arrival < b.arrival
    ELSE IF a.priority # b.priority THEN a.priority < b.priority
    ELSE a.pid < b.pid

Perms(n) == {f \in [1..n -> 1..n] : \A i, j \in 1..n : i # j => f[i] # f[j]}

\* the results std::sort may produce: every permutation of v that is ordered
\* under the comparator (elements the comparator ties may come in any order)
RRSort(v) ==
    {s \in {[i \in 1..Len(v) |-> v[f[i]]] : f \in Perms(Len(v))} :
        \A i, j \in 1..Len(v) : i < j => ~RRLess(s[j], s[i])}

PPSSort(v) ==
    {s \in {[i \in 1..Len(v) |-> v[f[i]]] : f \in Perms(Len(v))} :
        \A i, j \in 1..Len(v) : i < j => ~PPSLess(s[j], s[i])}

----------------------------------------------------------------------------
(* Shared helpers.  Indices into procs are 1-based here: index i stands for *)
(* the source's i-1, and an index of Len(procs)+1 for the source's n.       *)

\* the indices i, i+1, ..., k-1 in ascending order
Indices(i, k) == [j \in 1..(k - i) |-> i + j - 1]

\* the scan with < for ==
NextIdxEqStrict(ps, i, t) ==
    LET stop == {k \in i..Len(ps) : ~(ps[k].arrival < t)}
    IN  IF stop = {} THEN Len(ps) + 1
        ELSE CHOOSE k \in stop : \A m \in stop : k <= m

\* while(idx < n && procs[idx].arrival == t) idx++ : the index it stops at
NextIdxEq(ps, i, t) ==
    LET stop == {k \in i..Len(ps) : ps[k].arrival # t}
    IN  IF stop = {} THEN Len(ps) + 1
        ELSE CHOOSE k \in stop : \A m \in stop : k <= m

\* the scan with < for <=
NextIdxLeStrict(ps, i, t) ==
    LET stop == {k \in i..Len(ps) : ~(ps[k].arrival < t)}
    IN  IF stop = {} THEN Len(ps) + 1
        ELSE CHOOSE k \in stop : \A m \in stop : k <= m

\* the scan one tick ahead of the clock
NextIdxLeAhead(ps, i, t) ==
    LET stop == {k \in i..Len(ps) : ~(ps[k].arrival <= t + 1)}
    IN  IF stop = {} THEN Len(ps) + 1
        ELSE CHOOSE k \in stop : \A m \in stop : k <= m

\* while(idx < n && procs[idx].arrival <= t) idx++ : the index it stops at
NextIdxLe(ps, i, t) ==
    LET stop == {k \in i..Len(ps) : ~(ps[k].arrival <= t)}
    IN  IF stop = {} THEN Len(ps) + 1
        ELSE CHOOSE k \in stop : \A m \in stop : k <= m

\* the engines take vector<Process> procs by value: what they do to their
\* copy ps leaves the caller's vector c as it is
ArgumentByReference(c, ps) == ps

Argument(c, ps) == c

\* a process with no work left is taken for unfinished
StillHasWorkOrNone(p) == p.remaining >= 0

\* if(p.remaining > 0): the process goes back to the queue or heap
StillHasWork(p) == p.remaining > 0

\* the first dispatch time is overwritten at every dispatch
SetStartAlways(p, t) == [p EXCEPT !.start_time = t]

\* if(p.start_time == -1) p.start_time = time
SetStart(p, t) == IF p.start_time = -1 THEN [p EXCEPT !.start_time = t] ELSE p

\* turnaround measured from the first dispatch instead of the arrival
FinalizeFromStart(p, t) ==
    [p EXCEPT !.completion_time = t,
              !.turnaround_time = t - p.start_time,
              !.waiting_time = (t - p.start_time) - p.burst]

\* the burst is not taken off the waiting time
FinalizeWaitingIsTurnaround(p, t) ==
    [p EXCEPT !.completion_time = t,
              !.turnaround_time = t - p.arrival,
              !.waiting_time = t - p.arrival]

\* the else branch of both engines: completion, turnaround and waiting times
Finalize(p, t) ==
    [p EXCEPT !.completion_time = t,
              !.turnaround_time = t - p.arrival,
              !.waiting_time = (t - p.arrival) - p.burst]

\* an idle interval that starts at tick 0 wherever the clock stands
IdleEntryFromZero(t, next_t) == GanttEntry(IDLE, 0, next_t)

\* an idle interval that ends one tick after the next arrival
IdleEntryOvershoot(t, next_t) == GanttEntry(IDLE, t, next_t + 1)

\* gantt.emplace_back(-1, time, next_t); time = next_t
IdleEntry(t, next_t) == GanttEntry(IDLE, t, next_t)

----------------------------------------------------------------------------
(* round_robin *)

\* a slice of a full quantum whatever work is left
RRExecFullQuantum(qt, remaining) == qt

\* a slice that runs the process to its end whatever the quantum
RRExecWholeBurst(qt, remaining) == remaining

\* int exec = min(quantum, p.remaining)
RRExec(qt, remaining) == Min(qt, remaining)

\* the preempted process re-enters ahead of the arrivals of its slice
RRRequeueFirst(rest, admitted, i) == rest \o <<i>> \o admitted

\* the queue after a slice of process i that leaves it unfinished: the
\* arrivals admitted during the slice first, then i
RRRequeue(rest, admitted, i) == rest \o admitted \o <<i>>

InQueue(n, qu) == [i \in 1..n |-> i \in Range(qu)]

\* function entry up to the main loop: sort, admit the arrivals of tick 0,
\* fast-forward over a leading idle period
RRStart ==
    /\ pc = "start" /\ engine = "rr"
    /\ \E s \in RRSort(caller) :
        LET n == Len(s)
            idx0 == NextIdxEq(s, 1, 0)
            q0 == Indices(1, idx0)
            ff == q0 = <<>> /\ idx0 <= n
            next_t == s[idx0].arrival
            idx1 == IF ff THEN NextIdxEq(s, idx0, next_t) ELSE idx0
            q1 == IF ff THEN Indices(idx0, idx1) ELSE q0
        IN  /\ procs' = s
            /\ q' = q1
            /\ in_queue' = InQueue(n, q1)
            /\ idx_next_arrival' = idx1
            /\ gantt' = IF ff THEN <<IdleEntry(0, next_t)>> ELSE <<>>
            /\ time' = IF ff THEN next_t ELSE 0
    /\ completed' = 0
    /\ pc' = "loop"
    /\ caller' = Argument(caller, procs')
    /\ UNCHANGED <<main_pc, engine, quantum, pq, idx>>

\* a loop iteration that finds the queue empty while processes are still to
\* arrive
RRIdle ==
    /\ pc = "loop" /\ engine = "rr"
    /\ completed < Len(procs)
    /\ q = <<>>
    /\ idx_next_arrival <= Len(procs)
    /\ Len(gantt) < MaxGantt
    /\ LET next_t == procs[idx_next_arrival].arrival
           t1 == IF time < next_t THEN next_t ELSE time
           idx1 == NextIdxEq(procs, idx_next_arrival, t1)
           q1 == Indices(idx_next_arrival, idx1)
       IN  /\ gantt' = IF time < next_t THEN Append(gantt, IdleEntry(time, next_t))
                       ELSE gantt
           /\ time' = t1
           /\ q' = q1
           /\ in_queue' = [i \in DOMAIN in_queue |-> in_queue[i] \/ i \in Range(q1)]
           /\ idx_next_arrival' = idx1
    /\ UNCHANGED <<main_pc, engine, quantum, caller, procs, pq, completed, idx, pc>>

\* a loop iteration that dispatches the head of the queue for one slice
RRDispatch ==
    /\ pc = "loop" /\ engine = "rr"
    /\ completed < Len(procs)
    /\ q # <<>>
    /\ Len(gantt) < MaxGantt
    /\ LET i == Head(q)
           p0 == SetStart(procs[i], time)
           exec == RRExec(quantum, p0.remaining)
           p1 == [p0 EXCEPT !.remaining = p0.remaining - exec]
           t1 == time + exec
           idx1 == NextIdxLe(procs, idx_next_arrival, t1)
           admitted == Indices(idx_next_arrival, idx1)
           inq1 == [j \in DOMAIN in_queue |->
                      IF j \in Range(admitted) THEN TRUE
                      ELSE IF j = i THEN FALSE ELSE in_queue[j]]
       IN  /\ gantt' = Append(gantt, GanttEntry(p0.pid, time, t1))
           /\ time' = t1
           /\ idx_next_arrival' = idx1
           /\ IF StillHasWork(p1)
              THEN /\ q' = RRRequeue(Tail(q), admitted, i)
                   /\ in_queue' = [inq1 EXCEPT ![i] = TRUE]
                   /\ procs' = [procs EXCEPT ![i] = p1]
                   /\ completed' = completed
              ELSE /\ q' = Tail(q) \o admitted
                   /\ in_queue' = inq1
                   /\ procs' = [procs EXCEPT ![i] = Finalize(p1, t1)]
                   /\ completed' = completed + 1
    /\ caller' = Argument(caller, procs')
    /\ UNCHANGED <<main_pc, engine, quantum, pq, idx, pc>>

\* the loop ends: completed == n, or the break of an empty queue with no
\* process left to arrive
RRFinish ==
    /\ pc = "loop" /\ engine = "rr"
    /\ \/ completed >= Len(procs)
       \/ q = <<>> /\ idx_next_arrival > Len(procs)
    /\ pc' = "done"
    /\ UNCHANGED <<main_pc, engine, quantum, caller, procs, q, in_queue, pq, time,
                   completed, idx_next_arrival, idx, gantt>>

----------------------------------------------------------------------------
(* preemptive_priority *)

\* a comparator that ignores the priority
cmpNoPriority(ps, a, b) ==
    IF ps[a].arrival # ps[b].arrival THEN ps[a].arrival > ps[b].arrival
    ELSE ps[a].pid > ps[b].pid

\* a comparator without the tie-break on the pid
cmpNoPid(ps, a, b) ==
    IF ps[a].priority # ps[b].priority THEN ps[a].priority > ps[b].priority
    ELSE ps[a].arrival > ps[b].arrival

\* a comparator that ignores the arrival
cmpNoArrival(ps, a, b) ==
    IF ps[a].priority # ps[b].priority THEN ps[a].priority > ps[b].priority
    ELSE ps[a].pid > ps[b].pid

\* the heap's comparator: cmp(a, b) holds when a comes after b
cmp(ps, a, b) ==
    IF ps[a].priority # ps[b].priority THEN ps[a].priority > ps[b].priority
    ELSE IF ps[a].arrival # ps[b].arrival THEN ps[a].arrival > ps[b].arrival
    ELSE ps[a].pid > ps[b].pid

\* pq.top(): an element no other element comes before (any of them when the
\* comparator ties)
Top(ps, heap) == {a \in heap : \A b \in heap : ~cmp(ps, a, b)}

\* int run_for = 1
run_for == 1

\* function entry up to the main loop: sort, leading idle interval
PPSStart ==
    /\ pc = "start" /\ engine = "pps"
    /\ \E s \in PPSSort(caller) :
        LET ff == 1 <= Len(s) /\ s[1].arrival > 0
        IN  /\ procs' = s
            /\ gantt' = IF ff THEN <<IdleEntry(0, s[1].arrival)>> ELSE <<>>
            /\ time' = IF ff THEN s[1].arrival ELSE 0
    /\ completed' = 0
    /\ idx' = 1
    /\ pq' = {}
    /\ pc' = "loop"
    /\ caller' = Argument(caller, procs')
    /\ UNCHANGED <<main_pc, engine, quantum, q, in_queue, idx_next_arrival>>

\* a loop iteration that finds the heap empty after admission while
\* processes are still to arrive
PPSIdle ==
    /\ pc = "loop" /\ engine = "pps"
    /\ completed < Len(procs)
    /\ Len(gantt) < MaxGantt
    /\ LET idx1 == NextIdxLe(procs, idx, time)
           pq1 == pq \cup Range(Indices(idx, idx1))
       IN  /\ pq1 = {}
           /\ idx1 <= Len(procs)
           /\ LET next_t == procs[idx1].arrival
              IN  /\ gantt' = IF time < next_t
                              THEN Append(gantt, IdleEntry(time, next_t))
                              ELSE gantt
                  /\ time' = IF time < next_t THEN next_t ELSE time
           /\ idx' = idx1
           /\ pq' = pq1
    /\ UNCHANGED <<main_pc, engine, quantum, caller, procs, q, in_queue, completed,
                   idx_next_arrival, pc>>

\* a loop iteration that runs the top of the heap for one tick
PPSDispatch ==
    /\ pc = "loop" /\ engine = "pps"
    /\ completed < Len(procs)
    /\ Len(gantt) < MaxGantt
    /\ LET idx1 == NextIdxLe(procs, idx, time)
           pq1 == pq \cup Range(Indices(idx, idx1))
       IN  /\ pq1 # {}
           /\ \E cur \in Top(procs, pq1) :
               LET p0 == SetStart(procs[cur], time)
                   p1 == [p0 EXCEPT !.remaining = p0.remaining - run_for]
                   t1 == time + run_for
                   idx2 == NextIdxLe(procs, idx1, t1)
                   pq2 == (pq1 \ {cur}) \cup Range(Indices(idx1, idx2))
               IN  /\ gantt' = Append(gantt, GanttEntry(p0.pid, time, t1))
                   /\ time' = t1
                   /\ idx' = idx2
                   /\ IF StillHasWork(p1)
                      THEN /\ pq' = pq2 \cup {cur}
                           /\ procs' = [procs EXCEPT ![cur] = p1]
                           /\ completed' = completed
                      ELSE /\ pq' = pq2
                           /\ procs' = [procs EXCEPT ![cur] = Finalize(p1, t1)]
                           /\ completed' = completed + 1
    /\ caller' = Argument(caller, procs')
    /\ UNCHANGED <<main_pc, engine, quantum, q, in_queue, idx_next_arrival, pc>>

\* the loop ends: completed == n, or the break of an empty heap with no
\* process left to arrive
PPSFinish ==
    /\ pc = "loop" /\ engine = "pps"
    /\ \/ completed >= Len(procs)
       \/ LET idx1 == NextIdxLe(procs, idx, time)
          IN  pq \cup Range(Indices(idx, idx1)) = {} /\ idx1 > Len(procs)
    /\ pc' = "done"
    /\ UNCHANGED <<main_pc, engine, quantum, caller, procs, q, in_queue, pq, time,
                   completed, idx_next_arrival, idx, gantt>>

----------------------------------------------------------------------------
(* Inputs and specifications *)

ProcVectors(counts, pids, arrivals, bursts, priorities) ==
    UNION {[1..n -> {Process(id, a, b, p) : id \in pids, a \in arrivals,
                                           b \in bursts, p \in priorities}] :
           n \in counts}

\* the valid process vectors of the bounded domain, listed by ascending pid
\* as main's sample is, and main's sample
ValidVectors ==
    {v \in ProcVectors(ProcCounts, Pids, 0..MaxArrival, 1..MaxBurst, Priorities) :
        ValidProcs(v) /\ \A i, j \in DOMAIN v : i < j => v[i].pid < v[j].pid}
    \cup {load_sample}

AnyVectors == ProcVectors(AnyCounts, AnyPids, AnyArrivals, AnyBursts, AnyPriorities)

\* the locals of an engine at its entry, procs being the copy of the
\* caller's vector
EngineEntry ==
    /\ procs = caller
    /\ q = <<>>
    /\ in_queue = [i \in DOMAIN caller |-> FALSE]
    /\ pq = {}
    /\ time = 0
    /\ completed = 0
    /\ idx_next_arrival = 1
    /\ idx = 1
    /\ gantt = <<>>
    /\ pc = "start"

\* main with arguments: one engine call on the process vector it read
InitRun(vectors, quanta) ==
    /\ main_pc = "args"
    /\ caller \in vectors
    /\ \/ engine = "rr" /\ quantum \in quanta
       \/ engine = "pps" /\ quantum = 0
    /\ EngineEntry

\* main without arguments: round_robin(load_sample(), 2) comes first
InitSample ==
    /\ main_pc = "sample_rr"
    /\ caller = load_sample
    /\ engine = "rr" /\ quantum = 2
    /\ EngineEntry

\* main calls an engine on a valid process vector, or runs its sample
Init == InitRun(ValidVectors, Quanta) \/ InitSample

\* main calls an engine on whatever it read, or runs its sample
InitAny == InitRun(AnyVectors, AnyQuanta) \/ InitSample

\* the loop of main between its two calls on the sample
ResetProcess(p) ==
    [p EXCEPT !.remaining = p.burst, !.start_time = -1, !.completion_time = 0,
              !.waiting_time = 0, !.turnaround_time = 0]

\* main without arguments, after round_robin has returned: reset the
\* vector and call preemptive_priority on it
MainSecondRun ==
    /\ main_pc = "sample_rr" /\ pc = "done"
    /\ main_pc' = "sample_pps"
    /\ caller' = [i \in DOMAIN caller |-> ResetProcess(caller[i])]
    /\ engine' = "pps"
    /\ quantum' = 0
    /\ procs' = caller'
    /\ q' = <<>>
    /\ in_queue' = [i \in DOMAIN caller |-> FALSE]
    /\ pq' = {}
    /\ time' = 0
    /\ completed' = 0
    /\ idx_next_arrival' = 1
    /\ idx' = 1
    /\ gantt' = <<>>
    /\ pc' = "start"

Next ==
    \/ RRStart
    \/ RRIdle
    \/ RRDispatch
    \/ RRFinish
    \/ PPSStart
    \/ PPSIdle
    \/ PPSDispatch
    \/ PPSFinish
    \/ MainSecondRun

Spec == Init /\ [][Next]_vars

SpecAny == InitAny /\ [][Next]_vars

\* the engines are sequential code: a step that can be taken is taken
FairSpec == Init /\ [][Next]_vars /\ WF_vars(Next)

----------------------------------------------------------------------------
(* What the timeline says about a run *)

RECURSIVE ExecTicks(_, _)
\* the ticks the intervals of g give to process id
ExecTicks(g, id) ==
    IF g = <<>> THEN 0
    ELSE (IF Head(g).pid = id THEN Head(g).end - Head(g).start ELSE 0)
         + ExecTicks(Tail(g), id)

\* the work process p has left when interval k of the timeline starts
RemainingAt(p, k) == p.burst - ExecTicks(SubSeq(gantt, 1, k - 1), p.pid)

ProcOf(id) == CHOOSE p \in Range(procs) : p.pid = id

\* the order (priority, arrival, pid) of the specification
Precedes(a, b) ==
    \/ a.priority < b.priority
    \/ a.priority = b.priority /\ a.arrival < b.arrival
    \/ a.priority = b.priority /\ a.arrival = b.arrival /\ a.pid < b.pid

IsExec(k) == k \in DOMAIN gantt /\ gantt[k].pid # IDLE

----------------------------------------------------------------------------
(* C1 *)

\* C1: on valid input the timeline of either engine is contiguous in every
\* state of the run: its first interval starts at tick 0 and every later
\* interval starts where the one before it ends.
C1_Contiguous ==
    /\ gantt # <<>> => gantt[1].start = 0
    /\ \A k \in 1..(Len(gantt) - 1) : gantt[k].end = gantt[k + 1].start

\* a round_robin timeline with an idle interval between two executions
C1_Witness ==
    /\ engine = "rr"
    /\ \E k \in 2..(Len(gantt) - 1) :
        gantt[k].pid = IDLE /\ IsExec(k - 1) /\ IsExec(k + 1)

----------------------------------------------------------------------------
(* C2 *)

\* the processes that have arrived and have work left when interval k starts
Eligible(k) ==
    {p \in Range(procs) : p.arrival <= gantt[k].start /\ RemainingAt(p, k) > 0}

\* every execution interval of preemptive_priority is one tick long and goes
\* to the eligible process that precedes all the others
PPSRunsMostUrgent ==
    \A k \in DOMAIN gantt : IsExec(k) =>
        /\ gantt[k].end = gantt[k].start + 1
        /\ \E p \in Eligible(k) :
            /\ p.pid = gantt[k].pid
            /\ \A o \in Eligible(k) : o.pid # p.pid => Precedes(p, o)

\* the processes arriving exactly when interval k starts, more urgent than
\* the process of interval k-1
UrgentArrivals(k) ==
    {p \in Range(procs) :
        /\ p.arrival = gantt[k].start
        /\ p.priority < ProcOf(gantt[k - 1].pid).priority}

\* intervals k-1 and k are executions and the process of interval k-1 has
\* work left when interval k starts
Preemptible(k) ==
    /\ IsExec(k - 1) /\ IsExec(k)
    /\ RemainingAt(ProcOf(gantt[k - 1].pid), k) > 0

\* on main's sample P1 runs [0,1) and P2 takes over at tick 1
PPSSampleStart ==
    (caller = load_sample /\ Len(gantt) >= 2) =>
        /\ gantt[1] = GanttEntry(1, 0, 1)
        /\ gantt[2] = GanttEntry(2, 1, 2)

\* C2 as stated: the most urgent eligible process runs every tick, and every
\* process that arrives at tick t more urgent than the unfinished process of
\* [t-1, t) runs in [t, t+1) instead of it.
C2_Original ==
    engine = "pps" =>
        /\ PPSRunsMostUrgent
        /\ PPSSampleStart
        /\ \A k \in 2..Len(gantt) : Preemptible(k) =>
            \A p \in UrgentArrivals(k) : gantt[k].pid = p.pid

\* C2 (amended): the most urgent eligible process runs every tick; when
\* processes arrive at tick t more urgent than the unfinished process of
\* [t-1, t), that process does not run in [t, t+1): the one of the arrivals
\* that precedes the others does.
C2_MostUrgentRuns ==
    engine = "pps" =>
        /\ PPSRunsMostUrgent
        /\ PPSSampleStart
        /\ \A k \in 2..Len(gantt) :
            (Preemptible(k) /\ UrgentArrivals(k) # {}) =>
                /\ gantt[k].pid # gantt[k - 1].pid
                /\ \E p \in UrgentArrivals(k) :
                    /\ p.pid = gantt[k].pid
                    /\ \A o \in UrgentArrivals(k) : o.pid # p.pid => Precedes(p, o)

\* an unfinished process loses the processor to a more urgent arrival
C2_Witness ==
    /\ engine = "pps"
    /\ \E k \in 2..Len(gantt) : Preemptible(k) /\ UrgentArrivals(k) # {}

----------------------------------------------------------------------------
(* C3 *)

RRSampleRun == engine = "rr" /\ quantum = 2 /\ caller = load_sample

\* C3 as stated: on main's sample with quantum 2 the round_robin timeline
\* begins [P1:0-2][P2:2-4][P1:4-5].
C3_Original ==
    (RRSampleRun /\ Len(gantt) >= 3) =>
        SubSeq(gantt, 1, 3) =
            <<GanttEntry(1, 0, 2), GanttEntry(2, 2, 4), GanttEntry(1, 4, 5)>>

\* C3 (amended): on main's sample with quantum 2 round_robin starts P1 at
\* tick 0 and its timeline begins [P1:0-2][P2:2-4][P3:4-6].
C3_SamplePrefix ==
    (RRSampleRun /\ Len(gantt) >= 3) =>
        /\ ProcOf(1).start_time = 0
        /\ SubSeq(gantt, 1, 3) =
            <<GanttEntry(1, 0, 2), GanttEntry(2, 2, 4), GanttEntry(3, 4, 6)>>

C3_Witness == RRSampleRun /\ Len(gantt) = 3

----------------------------------------------------------------------------
(* C4, C5 *)

\* the mutable fields of p are as Process::Process left them
Untouched(p) ==
    /\ p.remaining = p.burst
    /\ p.start_time = -1
    /\ p.completion_time = 0
    /\ p.waiting_time = 0
    /\ p.turnaround_time = 0

NothingSimulated == gantt = <<>> /\ \A i \in DOMAIN procs : Untouched(procs[i])

\* C4: round_robin called with quantum <= 0 (on an otherwise valid process
\* set) rejects the input before simulating: no interval is appended and no
\* process state is changed.
C4_RejectsQuantum ==
    (engine = "rr" /\ quantum <= 0 /\ ValidProcs(caller)) => NothingSimulated

\* C5: on an empty process list, a duplicated identity, a negative arrival
\* or a burst <= 0 both engines fail before simulating: no interval is
\* appended, no process state is changed and the run does not complete.
C5_RejectsProcs == ~ValidProcs(caller) => (NothingSimulated /\ pc # "done")

----------------------------------------------------------------------------
(* C6 *)

RECURSIVE BusyTicks(_)
\* print_metrics' cpu_busy: the ticks of the execution intervals
BusyTicks(g) ==
    IF g = <<>> THEN 0
    ELSE (IF Head(g).pid # IDLE THEN Head(g).end - Head(g).start ELSE 0)
         + BusyTicks(Tail(g))

RECURSIVE TotalBurst(_)
TotalBurst(ps) == IF ps = <<>> THEN 0 ELSE Head(ps).burst + TotalBurst(Tail(ps))

\* C6: when an engine has finished on valid input, the execution intervals
\* add up to the sum of the bursts, and those of each process to its burst.
C6_WorkAccounted ==
    pc = "done" =>
        /\ BusyTicks(gantt) = TotalBurst(procs)
        /\ \A i \in DOMAIN procs : ExecTicks(gantt, procs[i].pid) = procs[i].burst

\* a finished preemptive_priority run of three processes with an idle gap
C6_Witness ==
    /\ pc = "done" /\ engine = "pps" /\ Len(procs) = 3
    /\ \E k \in 2..Len(gantt) : gantt[k].pid = IDLE
    /\ BusyTicks(gantt) > 3

----------------------------------------------------------------------------
(* C7 *)

EntriesOf(id) == {k \in DOMAIN gantt : gantt[k].pid = id}

\* the end tick of the last interval of process id
LastExecEnd(id) ==
    gantt[CHOOSE k \in EntriesOf(id) : \A m \in EntriesOf(id) : m <= k].end

\* C7: when an engine has finished on valid input, every process's
\* completion_time is the end of its last execution interval, its
\* turnaround_time is completion_time - arrival, and waiting_time + burst is
\* its turnaround_time.
C7_TimesDerived ==
    pc = "done" =>
        \A i \in DOMAIN procs :
            /\ EntriesOf(procs[i].pid) # {}
            /\ procs[i].completion_time = LastExecEnd(procs[i].pid)
            /\ procs[i].turnaround_time = procs[i].completion_time - procs[i].arrival
            /\ procs[i].waiting_time + procs[i].burst = procs[i].turnaround_time

\* a finished round_robin run in which a process waited before its first
\* dispatch and ran in more than one slice
C7_Witness ==
    /\ pc = "done" /\ engine = "rr"
    /\ \E i \in DOMAIN procs :
        /\ procs[i].start_time > procs[i].arrival
        /\ Cardinality(EntriesOf(procs[i].pid)) >= 2

----------------------------------------------------------------------------
(* C8 *)

RECURSIVE TotalRemaining(_)
TotalRemaining(ps) ==
    IF ps = <<>> THEN 0 ELSE Head(ps).remaining + TotalRemaining(Tail(ps))

AllDone ==
    /\ pc = "done"
    /\ completed = Len(procs)
    /\ \A i \in DOMAIN procs : procs[i].remaining = 0

\* a step that appends an execution interval
DispatchStep ==
    /\ Len(gantt') = Len(gantt) + 1
    /\ gantt'[Len(gantt')].pid # IDLE

\* C8: every run on valid input terminates with completed == n and no work
\* left, and every dispatch strictly decreases the total remaining work.
C8_Terminates ==
    /\ <>AllDone
    /\ [][DispatchStep => TotalRemaining(procs') < TotalRemaining(procs)]_vars

\* a round_robin run of three processes has ended after an idle gap and a
\* preemption
C8_Witness ==
    /\ AllDone /\ engine = "rr" /\ Len(procs) = 3
    /\ \E k \in DOMAIN gantt : gantt[k].pid = IDLE
    /\ \E i \in DOMAIN procs : Cardinality(EntriesOf(procs[i].pid)) >= 2

----------------------------------------------------------------------------
(* C9 *)

\* C9 as stated: completion_time >= arrival + burst, waiting_time >= 0 and
\* turnaround_time >= burst hold for every process in every state of a run
\* (from the engine's first step on).
C9_Original ==
    pc # "start" => \A i \in DOMAIN procs :
        /\ procs[i].completion_time >= procs[i].arrival + procs[i].burst
        /\ procs[i].waiting_time >= 0
        /\ procs[i].turnaround_time >= procs[i].burst

\* C9 (amended): waiting_time >= 0 holds for every process in every state of
\* a run; completion_time >= arrival + burst and turnaround_time >= burst
\* hold for every process in every state once it has no work left (from its
\* finalization on).
C9_FinalizedBounds ==
    \A i \in DOMAIN procs :
        /\ procs[i].waiting_time >= 0
        /\ procs[i].remaining = 0 =>
            /\ procs[i].completion_time >= procs[i].arrival + procs[i].burst
            /\ procs[i].turnaround_time >= procs[i].burst

\* one process is finalized after waiting while another still has work left
C9_Witness ==
    /\ pc = "loop"
    /\ \E i, j \in DOMAIN procs :
        /\ procs[i].remaining = 0 /\ procs[i].waiting_time > 0
        /\ procs[j].remaining > 0 /\ procs[j].start_time # -1

----------------------------------------------------------------------------
(* C10 *)

\* interval k is a slice that leaves its process with work to do
Preempted(k) == IsExec(k) /\ RemainingAt(ProcOf(gantt[k].pid), k + 1) > 0

\* the indices of the processes that arrive during slice k, its end included
ArrivedDuring(k) ==
    {j \in DOMAIN procs :
        gantt[k].start < procs[j].arrival /\ procs[j].arrival <= gantt[k].end}

\* the elements of the set of indices S in ascending order
RECURSIVE Ascending(_)
Ascending(S) ==
    IF S = {} THEN <<>>
    ELSE LET m == CHOOSE x \in S : \A y \in S : x <= y
         IN  <<m>> \o Ascending(S \ {m})

IndexOf(id) == CHOOSE j \in DOMAIN procs : procs[j].pid = id

\* C10: in round_robin the processes not yet admitted are those that arrive
\* after the clock; when a slice ends at tick t and leaves its process P
\* unfinished, the processes that arrived during the slice (tick t
\* included) stand at the tail of the ready queue in (arrival, pid) order
\* with P behind them, and each of them is dispatched before P is dispatched
\* again.
C10_ArrivalsBeforePreempted ==
    (engine = "rr" /\ pc # "start") =>
        /\ \A j \in DOMAIN procs :
            j < idx_next_arrival <=> procs[j].arrival <= time
        /\ \A j \in 1..(Len(procs) - 1) : RRLess(procs[j], procs[j + 1])
        /\ (pc = "loop" /\ gantt # <<>> /\ Preempted(Len(gantt))) =>
            LET k == Len(gantt)
                tail == Ascending(ArrivedDuring(k)) \o <<IndexOf(gantt[k].pid)>>
            IN  /\ Len(q) >= Len(tail)
                /\ SubSeq(q, Len(q) - Len(tail) + 1, Len(q)) = tail
        /\ \A k, k2 \in DOMAIN gantt :
            (k < k2 /\ Preempted(k) /\ gantt[k2].pid = gantt[k].pid) =>
                \A j \in ArrivedDuring(k) :
                    \E m \in (k + 1)..(k2 - 1) : gantt[m].pid = procs[j].pid

\* a preempted process is dispatched again after two processes that arrived
\* during its slice, one of them exactly at the end of the slice
C10_Witness ==
    /\ engine = "rr"
    /\ \E k, k2 \in DOMAIN gantt :
        /\ k < k2 /\ Preempted(k) /\ gantt[k2].pid = gantt[k].pid
        /\ Cardinality(ArrivedDuring(k)) >= 2
        /\ \E j \in ArrivedDuring(k) : procs[j].arrival = gantt[k].end

----------------------------------------------------------------------------
(* C11 *)

\* C11: a run of either engine on a single valid process ends with
\* waiting_time == 0 and completion_time == arrival + burst.
C11_SingleProcess ==
    (pc = "done" /\ Len(procs) = 1) =>
        /\ procs[1].waiting_time = 0
        /\ procs[1].completion_time = procs[1].arrival + procs[1].burst

\* a single process that arrives late has run in two round_robin slices
C11_Witness ==
    /\ pc = "done" /\ Len(procs) = 1 /\ engine = "rr"
    /\ procs[1].arrival > 0
    /\ Len(gantt) = 3

----------------------------------------------------------------------------
(* C12 *)

\* C12: no step of an engine changes the caller's process list, whose
\* entries stay as constructed; and when main calls preemptive_priority on
\* the sample after round_robin, the engine starts in the state in which it
\* starts on a fresh copy of the sample.
C12_RunsIndependent ==
    [][/\ caller' = caller
       /\ \A i \in DOMAIN caller : Untouched(caller[i])
       /\ (pc = "done" /\ pc' = "start") =>
            /\ engine' = "pps"
            /\ EngineEntry'
            /\ \A i \in DOMAIN caller : Untouched(caller'[i])]_vars

\* main's second call on the sample has run to its end
C12_Witness ==
    /\ main_pc = "sample_pps" /\ pc = "done"
    /\ caller = load_sample
    /\ completed = Len(procs)

----------------------------------------------------------------------------
(* C13 *)

\* the vectors std::sort may leave at the entry of the engine
SortResults == IF engine = "rr" THEN RRSort(caller) ELSE PPSSort(caller)

\* the heap once the loop has admitted the arrivals up to the clock
HeapAfterAdmission == pq \cup Range(Indices(idx, NextIdxLe(procs, idx, time)))

\* the steps the program can take next
EnabledSteps ==
    {a \in {"RRStart", "RRIdle", "RRDispatch", "RRFinish", "PPSStart",
            "PPSIdle", "PPSDispatch", "PPSFinish", "MainSecondRun"} :
        \/ a = "RRStart" /\ ENABLED RRStart
        \/ a = "RRIdle" /\ ENABLED RRIdle
        \/ a = "RRDispatch" /\ ENABLED RRDispatch
        \/ a = "RRFinish" /\ ENABLED RRFinish
        \/ a = "PPSStart" /\ ENABLED PPSStart
        \/ a = "PPSIdle" /\ ENABLED PPSIdle
        \/ a = "PPSDispatch" /\ ENABLED PPSDispatch
        \/ a = "PPSFinish" /\ ENABLED PPSFinish
        \/ a = "MainSecondRun" /\ ENABLED MainSecondRun}

\* C13: on valid input a run is determined by its input: in every state at
\* most one step is possible, the sort has one result and the heap has one
\* top, so that the timeline (and the context-switch count and the times
\* derived from it) is the same in every run on that input.
C13_Deterministic ==
    /\ Cardinality(EnabledSteps) <= 1
    /\ pc = "start" => Cardinality(SortResults) = 1
    /\ (engine = "pps" /\ pc = "loop" /\ HeapAfterAdmission # {}) =>
        Cardinality(Top(procs, HeapAfterAdmission)) = 1

\* the heap holds two processes of equal priority and arrival
C13_Witness ==
    /\ engine = "pps" /\ pc = "loop"
    /\ \E a, b \in HeapAfterAdmission :
        /\ a # b
        /\ procs[a].priority = procs[b].priority
        /\ procs[a].arrival = procs[b].arrival

----------------------------------------------------------------------------
(* C14 *)

Finished == {i \in DOMAIN procs : procs[i].remaining = 0}

\* the remaining work is within 0..burst, it is the burst at the entry of the
\* engine, and the finalized processes are those with no work left
RemainingInRange ==
    /\ \A i \in DOMAIN procs :
        /\ 0 <= procs[i].remaining /\ procs[i].remaining <= procs[i].burst
        /\ pc = "start" => procs[i].remaining = procs[i].burst
        /\ procs[i].completion_time # 0 <=> i \in Finished
    /\ completed = Cardinality(Finished)

\* a step of the engine's loop
LoopStep == pc = "loop" /\ pc' # "start"

\* C14: the remaining work of every process starts at its burst, stays
\* within 0..burst and never increases; a process is finalized in the step
\* that brings its work to 0, which adds one to completed, and from then on
\* it is neither dispatched nor written again.
C14_RemainingAndFinalization ==
    /\ []RemainingInRange
    /\ [][LoopStep =>
            /\ \A i \in DOMAIN procs :
                /\ procs'[i].remaining <= procs[i].remaining
                /\ i \in Finished => procs'[i] = procs[i]
            /\ DispatchStep =>
                ProcOf(gantt'[Len(gantt')].pid).remaining > 0
            /\ completed' = completed + Cardinality(Finished' \ Finished)
            /\ Cardinality(Finished' \ Finished) <= 1]_vars

\* a process is finalized while another, dispatched before, has work left
C14_Witness ==
    /\ pc = "loop" /\ completed = 1 /\ Len(procs) = 3
    /\ \E i \in DOMAIN procs :
        /\ procs[i].remaining > 0
        /\ procs[i].remaining < procs[i].burst

----------------------------------------------------------------------------
(* print_metrics, as the engines call it after their loop *)

\* gantt.empty() ? 0 : gantt.back().end
total_time == IF gantt = <<>> THEN 0 ELSE gantt[Len(gantt)].end

\* a division of doubles: the quotient num/den, or what IEEE arithmetic
\* gives for a zero divisor
DoubleDiv(num, den) ==
    [kind |-> IF den # 0 THEN "finite"
              ELSE IF num = 0 THEN "nan"
              ELSE IF num > 0 THEN "inf" ELSE "-inf",
     num |-> num, den |-> den]

RECURSIVE SumWaiting(_)
SumWaiting(ps) ==
    IF ps = <<>> THEN 0 ELSE Head(ps).waiting_time + SumWaiting(Tail(ps))

RECURSIVE SumTurnaround(_)
SumTurnaround(ps) ==
    IF ps = <<>> THEN 0 ELSE Head(ps).turnaround_time + SumTurnaround(Tail(ps))

avg_wt == DoubleDiv(SumWaiting(procs), Len(procs))

avg_tat == DoubleDiv(SumTurnaround(procs), Len(procs))

cpu_util == DoubleDiv(100 * BusyTicks(gantt), total_time)

throughput == DoubleDiv(Len(procs), total_time)

RECURSIVE context_switches(_)
\* the adjacent pairs of intervals with different pids
context_switches(g) ==
    IF Len(g) < 2 THEN 0
    ELSE (IF g[1].pid # g[2].pid THEN 1 ELSE 0) + context_switches(Tail(g))

IsZero(x) == x.kind = "finite" /\ x.num = 0

----------------------------------------------------------------------------
(* C15 *)

\* C15: when the makespan is 0 the CPU utilization and the throughput are 0
\* and no division has a zero divisor, neither the makespan nor the process
\* count.
C15_MetricsGuarded ==
    (pc = "done" /\ total_time = 0) =>
        /\ IsZero(cpu_util)
        /\ IsZero(throughput)
        /\ avg_wt.kind = "finite"
        /\ avg_tat.kind = "finite"

----------------------------------------------------------------------------
(* C16 *)

SliceLen(k) == gantt[k].end - gantt[k].start

\* C16: every round_robin slice is min(quantum, remaining work at dispatch)
\* ticks long, hence between 1 and the quantum; a slice shorter than the
\* quantum is the last of its process; after a slice its process is in the
\* queue iff it has work left, and then at the tail.
C16_SliceLength ==
    engine = "rr" =>
        /\ \A k \in DOMAIN gantt : IsExec(k) =>
            LET p == ProcOf(gantt[k].pid)
            IN  /\ SliceLen(k) = Min(quantum, RemainingAt(p, k))
                /\ 1 <= SliceLen(k) /\ SliceLen(k) <= quantum
                /\ SliceLen(k) < quantum =>
                    /\ RemainingAt(p, k + 1) = 0
                    /\ \A m \in DOMAIN gantt : m > k => gantt[m].pid # p.pid
        /\ (pc = "loop" /\ IsExec(Len(gantt))) =>
            LET i == IndexOf(gantt[Len(gantt)].pid)
            IN  /\ procs[i].remaining > 0 <=> i \in Range(q)
                /\ i \in Range(q) => q[Len(q)] = i

\* a process ran a full quantum of 2 and then a last slice of 1
C16_Witness ==
    /\ engine = "rr" /\ quantum = 2
    /\ \E k, m \in DOMAIN gantt :
        /\ k < m /\ IsExec(k) /\ gantt[m].pid = gantt[k].pid
        /\ SliceLen(k) = 2 /\ SliceLen(m) = 1

----------------------------------------------------------------------------
(* C17 *)

FirstEntry(id) == CHOOSE k \in EntriesOf(id) : \A m \in EntriesOf(id) : k <= m

\* start_time is -1 for a process without an interval, and else the start of
\* its first interval, which is not before its arrival; no interval of a
\* process starts before its arrival
StartTimeIsFirstDispatch ==
    /\ \A i \in DOMAIN procs :
        IF EntriesOf(procs[i].pid) = {}
        THEN procs[i].start_time = -1
        ELSE /\ procs[i].start_time = gantt[FirstEntry(procs[i].pid)].start
             /\ procs[i].start_time >= procs[i].arrival
    /\ \A k \in DOMAIN gantt :
        IsExec(k) => gantt[k].start >= ProcOf(gantt[k].pid).arrival

\* C17: in both engines start_time is the sentinel -1 until the first
\* dispatch, then the start tick of the process's first execution interval,
\* at or after its arrival, and never changes afterwards; no execution
\* interval of a process starts before its arrival.
C17_StartTime ==
    /\ []StartTimeIsFirstDispatch
    /\ [][LoopStep =>
            \A i \in DOMAIN procs :
                procs[i].start_time # -1 =>
                    procs'[i].start_time = procs[i].start_time]_vars

\* a process dispatched after its arrival is dispatched a second time, later
C17_Witness ==
    \E i \in DOMAIN procs :
        /\ Cardinality(EntriesOf(procs[i].pid)) >= 2
        /\ procs[i].start_time > procs[i].arrival
        /\ \E j \in DOMAIN procs : procs[j].start_time = -1

----------------------------------------------------------------------------
(* C18 *)

\* C18: in preemptive_priority the process of [t, t+1) differs from the
\* unfinished process of [t-1, t) only if it has a strictly smaller priority
\* value and arrived exactly at tick t: a process pushed back with work left
\* loses the processor to no process of equal priority.
C18_KeepsProcessorOnTies ==
    engine = "pps" =>
        \A k \in 2..Len(gantt) :
            (Preemptible(k) /\ gantt[k].pid # gantt[k - 1].pid) =>
                /\ ProcOf(gantt[k].pid).priority < ProcOf(gantt[k - 1].pid).priority
                /\ ProcOf(gantt[k].pid).arrival = gantt[k].start

\* an unfinished process keeps the processor at the tick at which a process
\* of its priority and a smaller pid arrives
C18_Witness ==
    /\ engine = "pps"
    /\ \E k \in 2..Len(gantt) :
        /\ Preemptible(k) /\ gantt[k].pid = gantt[k - 1].pid
        /\ \E i \in DOMAIN procs :
            /\ procs[i].priority = ProcOf(gantt[k].pid).priority
            /\ procs[i].arrival = gantt[k].start
            /\ procs[i].pid < gantt[k].pid

----------------------------------------------------------------------------
(* C19 *)

IsIdle(k) == k \in DOMAIN gantt /\ gantt[k].pid = IDLE

\* the arrival ticks after tick t
LaterArrivals(t) == {procs[i].arrival : i \in {j \in DOMAIN procs : procs[j].arrival > t}}

\* C19: an idle interval [s, e) has e > s, is emitted only when every
\* process that arrived by s has completed, and ends at the earliest arrival
\* after s; no two idle intervals are adjacent, and a finished timeline ends
\* with an execution interval, at the largest completion_time.
C19_WorkConserving ==
    /\ \A k \in DOMAIN gantt : IsIdle(k) =>
        /\ gantt[k].end > gantt[k].start
        /\ \A i \in DOMAIN procs :
            procs[i].arrival <= gantt[k].start => RemainingAt(procs[i], k) = 0
        /\ gantt[k].end \in LaterArrivals(gantt[k].start)
        /\ \A a \in LaterArrivals(gantt[k].start) : gantt[k].end <= a
        /\ ~IsIdle(k - 1)
    /\ pc = "done" =>
        /\ IsExec(Len(gantt))
        /\ \E i \in DOMAIN procs : procs[i].completion_time = total_time
        /\ \A i \in DOMAIN procs : procs[i].completion_time <= total_time

\* a finished preemptive_priority run of three processes with an idle
\* interval between executions
C19_Witness ==
    /\ pc = "done" /\ engine = "pps" /\ Len(procs) = 3
    /\ \E k \in 2..Len(gantt) : IsIdle(k)

----------------------------------------------------------------------------
(* C20 *)

\* intervals k and k2 are two consecutive slices of one process
ConsecutiveSlices(k, k2) ==
    /\ k < k2 /\ IsExec(k) /\ gantt[k2].pid = gantt[k].pid
    /\ \A m \in (k + 1)..(k2 - 1) : gantt[m].pid # gantt[k].pid

\* the other processes that have arrived and have work left when slice k ends
OthersWaiting(k) ==
    {j \in DOMAIN procs :
        /\ procs[j].pid # gantt[k].pid
        /\ procs[j].arrival <= gantt[k].end
        /\ RemainingAt(procs[j], k + 1) > 0}

\* C20: the ready queue holds no process twice and no finished process (and
\* in_queue tells which it holds); between two consecutive slices of a
\* process exactly the other unfinished processes that had arrived by the
\* end of the first slice run, once each, so the process waits at most
\* quantum times their number.
C20_BoundedWaiting ==
    (engine = "rr" /\ pc # "start") =>
        /\ \A a, b \in DOMAIN q : a # b => q[a] # q[b]
        /\ \A a \in DOMAIN q : procs[q[a]].remaining > 0
        /\ \A i \in DOMAIN procs : in_queue[i] <=> i \in Range(q)
        /\ \A k, k2 \in DOMAIN gantt : ConsecutiveSlices(k, k2) =>
            /\ \A m \in (k + 1)..(k2 - 1) :
                IsExec(m) /\ IndexOf(gantt[m].pid) \in OthersWaiting(k)
            /\ \A j \in OthersWaiting(k) :
                Cardinality({m \in (k + 1)..(k2 - 1) :
                                gantt[m].pid = procs[j].pid}) = 1
            /\ gantt[k2].start - gantt[k].end
                   <= quantum * Cardinality(OthersWaiting(k))

\* a process waits for two others between two of its slices
C20_Witness ==
    /\ engine = "rr"
    /\ \E k, k2 \in DOMAIN gantt :
        /\ ConsecutiveSlices(k, k2)
        /\ Cardinality(OthersWaiting(k)) = 2
        /\ gantt[k2].start - gantt[k].end = 2 * quantum

====
